---- MODULE Spec2Model ----
(***************************************************************************)
(* Session-scoped audio ingestion of political-fact-checker:               *)
(*   backend/App/routes.py          control_audio, FileCreationHandler     *)
(*   backend/media_player/speech_to_text/process_audio_queue.py            *)
(*                                  ProcessAudioQueue                      *)
(*                                                                         *)
(* The specifications of this module:                                      *)
(*   Spec              the running system: requests, registry, watchers,   *)
(*                     queues, the temp directory                          *)
(*   SpecLive          Spec with fair handler and invocation threads       *)
(*   SpecQueue         one ProcessAudioQueue under any caller              *)
(*   SpecStall         the system with a pipeline of one session stalled   *)
(*   SpecDelete        _delete_file against a file held open elsewhere     *)
(*   SpecCleanup       the _delete_file calls of one dequeue               *)
(*   SpecRecognize     embed_transcribe_speakers on one aligned segment    *)
(***************************************************************************)
EXTENDS Integers, Sequences, FiniteSets, TLC

(***************************************************************************)
(* Bounds of the model.                                                    *)
(***************************************************************************)
\* control requests the server receives
MaxRequests == 2
\* sequence numbers of the segment file names of a session
MaxSeq == 2
\* segment files the recorder writes in a run of the server
MaxFiles == 2
\* enqueue calls of the caller in SpecQueue
MaxEnq == 2

Sessions == {"s1", "s2"}
Requests == 1..MaxRequests
\* An observer is created by at most one play request and carries its number;
\* one more stands for an observer started before the requests followed.
Prior == MaxRequests + 1
Observers == Requests \cup {Prior}

\* A segment file name "{session_id}_{seq}.wav"; seq = 0 stands for the empty
\* string, the only falsy file name.
FileName(s, n) == [sess |-> s, seq |-> n]
SegmentFiles == {FileName(s, n) : s \in Sessions, n \in 1..MaxSeq}
EmptyName == FileName("s1", 0)
NoFile == FileName("s1", -1)
Truthy(f) == f.seq # 0

\* Lexicographic order of the names of one directory.
NameLess(f, g) == \/ f.sess = "s1" /\ g.sess = "s2"
                  \/ f.sess = g.sess /\ f.seq < g.seq

VARIABLES
  \* ---- file system and recorder
  dir,                  \* names present in TEMP_DIR
  nextSeq,              \* per session, the next sequence number the recorder writes
  recording,            \* sessions whose playback is being recorded
  \* ---- routes.py module state
  active_threads,       \* session -> observer (0: no entry)
  active_threads_lock,  \* request holding the lock (0: free)
  \* ---- invocations of control_audio
  rpc,                  \* where the invocation is
  rsess,                \* its session_id
  rvideo,               \* its 'videoName': "present" | "missing" | "none"
  resp,                 \* what the caller got
  \* ---- observers and their FileCreationHandler / ProcessAudioQueue
  obsState,             \* "none" | "created" | "running" | "stopped" | "dead"
  obsSess,              \* session_id of the handler's queue
  evq,                  \* watchdog's event queue of the observer
  queue,                \* ProcessAudioQueue.queue
  hpc,                  \* where the thread inside dequeue is
  cur,                  \* file_name of the running dequeue (NoFile: none runs)
  delCount,             \* _delete_file calls of the running / last dequeue
  raised,               \* process_file raised in the running / last dequeue
  outcome,              \* how the last dequeue call ended
  \* ---- observation of one queue (SpecQueue)
  procLog,              \* names handed to process_file, in order
  entered,              \* names in the order they entered the queue
  scanned,              \* how many names _load_files put in
  \* ---- one call of _delete_file (SpecDelete)
  dpc,                  \* "off" | "try" | "sleep" | "returned"
  retries,              \* the local 'retries'
  clock,                \* ticks since the first attempt
  exists,               \* the file is on disk
  held,                 \* another holder has the file open
  relAt,                \* tick at which the holder let go (-1: it has not)
  relTry,               \* failed attempts made when the holder let go
  result,               \* "none" | "deleted" | "absent" | "failed"
  \* ---- the _delete_file calls of one dequeue (SpecCleanup)
  excPath,              \* process_file raised: lines 68 and 69 both call
  callNo,               \* _delete_file calls the dequeue has made so far
  firstTries,           \* 'retries' at the end of the first of two calls
  firstResult,          \* 'result' of the first of two calls
  \* ---- one call of embed_transcribe_speakers (SpecRecognize)
  words,                \* segments["words"] of the aligned segment
  ndim,                 \* speaker tag -> ndim of the embedding of its phrase
  phrases,              \* the dict 'phrases', in insertion order
  gpc,                  \* "off" | "words" | "phrases" | "done" | "raised"
  pidx,                 \* phrases identified so far
  printed               \* lines printed, in order

fsVars  == <<dir, nextSeq, recording>>
regVars == <<active_threads, active_threads_lock>>
reqVars == <<rpc, rsess, rvideo, resp>>
obsVars == <<obsState, obsSess, evq>>
qVars   == <<queue, hpc, cur, delCount, raised, outcome>>
logVars == <<procLog, entered, scanned>>
sysVars == <<fsVars, regVars, reqVars, obsVars, qVars, logVars>>
dqVars  == <<excPath, callNo, firstTries, firstResult>>
delVars == <<dpc, retries, clock, exists, held, relAt, relTry, result, dqVars>>
recVars == <<words, ndim, phrases, gpc, pidx, printed>>
fnVars  == <<delVars, recVars>>
vars    == <<sysVars, fnVars>>

(***************************************************************************)
(* Sequences.                                                              *)
(***************************************************************************)
RECURSIVE SortedSeq(_)
\* sorted(...) of a set of names: ascending.
SortedSeq(S) ==
  IF S = {} THEN <<>>
  ELSE LET m == CHOOSE x \in S : \A y \in S \ {x} : NameLess(x, y)
       IN <<m>> \o SortedSeq(S \ {m})

IsPrefix(s, t) == Len(s) <= Len(t) /\ SubSeq(t, 1, Len(s)) = s

(***************************************************************************)
(* ProcessAudioQueue                                                       *)
(***************************************************************************)
\* _load_files' result: the session's files of the directory, sorted.
LoadFiles(s, d) == SortedSeq({f \in d : f.sess = s})

\* enqueue: self.queue.append(file_name)
EnqueueFront(q, f) == <<f>> \o q
Enqueue(q, f) == Append(q, f)

\* a dequeue that reads the head and leaves it in the queue
PeekLeft(o, q) ==
  /\ q # <<>>
  /\ LET f == Head(q) IN
       /\ queue' = [queue EXCEPT ![o] = q]
       /\ cur' = [cur EXCEPT ![o] = IF Truthy(f) THEN f ELSE NoFile]
       /\ delCount' = [delCount EXCEPT ![o] = 0]
       /\ raised' = [raised EXCEPT ![o] = FALSE]
       /\ outcome' = [outcome EXCEPT ![o] = IF Truthy(f) THEN "running" ELSE "skipped"]
       /\ hpc' = [hpc EXCEPT ![o] = IF Truthy(f) THEN "process" ELSE "idle"]

\* dequeue, lines 61-63, on the queue contents q: pop the head; a truthy name
\* goes to process_file, a falsy one is skipped and ends the call at once.
PopLeft(o, q) ==
  /\ q # <<>>
  /\ LET f == Head(q) IN
       /\ queue' = [queue EXCEPT ![o] = Tail(q)]
       /\ cur' = [cur EXCEPT ![o] = IF Truthy(f) THEN f ELSE NoFile]
       /\ delCount' = [delCount EXCEPT ![o] = 0]
       /\ raised' = [raised EXCEPT ![o] = FALSE]
       /\ outcome' = [outcome EXCEPT ![o] = IF Truthy(f) THEN "running" ELSE "skipped"]
       /\ hpc' = [hpc EXCEPT ![o] = IF Truthy(f) THEN "process" ELSE "idle"]

\* n _delete_file calls of dequeue on cur[o], one after the other: one of them
\* removes the file, or it is left (absent already, or held open through
\* every attempt of every call: SpecDelete).
DeleteFile(o, n, removed) ==
  /\ removed => cur[o] \in dir
  /\ dir' = IF removed THEN dir \ {cur[o]} ELSE dir
  /\ delCount' = [delCount EXCEPT ![o] = @ + n]

\* process_file raised and the exception leaves dequeue.
ProcessRaisesUncaught(o) ==
  /\ hpc[o] = "process"
  /\ hpc' = [hpc EXCEPT ![o] = "idle"]
  /\ cur' = [cur EXCEPT ![o] = NoFile]
  /\ raised' = [raised EXCEPT ![o] = TRUE]
  /\ outcome' = [outcome EXCEPT ![o] = "propagated"]
  /\ UNCHANGED <<fnVars, fsVars, regVars, reqVars, obsVars, queue, delCount, logVars>>

\* process_file returned: line 69 calls _delete_file and dequeue returns.
ProcessReturns(o) ==
  /\ hpc[o] = "process"
  /\ \E removed \in BOOLEAN : DeleteFile(o, 1, removed)
  /\ hpc' = [hpc EXCEPT ![o] = "idle"]
  /\ cur' = [cur EXCEPT ![o] = NoFile]
  /\ outcome' = [outcome EXCEPT ![o] = "returned"]
  /\ UNCHANGED <<fnVars, nextSeq, recording, regVars, reqVars, obsVars, queue, raised, logVars>>

\* process_file raised (lines 81-83 re-raise): dequeue's except clause, lines
\* 66-68, prints and calls _delete_file; the try statement is over, line 69
\* calls _delete_file and dequeue returns.
ProcessRaises(o) ==
  /\ hpc[o] = "process"
  /\ raised' = [raised EXCEPT ![o] = TRUE]
  /\ \E removed \in BOOLEAN : DeleteFile(o, 2, removed)
  /\ hpc' = [hpc EXCEPT ![o] = "idle"]
  /\ cur' = [cur EXCEPT ![o] = NoFile]
  /\ outcome' = [outcome EXCEPT ![o] = "returned"]
  /\ UNCHANGED <<fnVars, nextSeq, recording, regVars, reqVars, obsVars, queue, logVars>>

(***************************************************************************)
(* The state in which nothing has happened yet.                            *)
(***************************************************************************)
InitRequests ==
  /\ active_threads = [s \in Sessions |-> 0]
  /\ active_threads_lock = 0
  /\ rpc = [r \in Requests |-> "new"]
  /\ rsess = [r \in Requests |-> "s1"]
  /\ rvideo = [r \in Requests |-> "none"]
  /\ resp = [r \in Requests |-> "none"]

\* No call of _delete_file is followed.
IdleDelete ==
  /\ dpc = "off" /\ retries = 0 /\ clock = 0
  /\ exists = FALSE /\ held = FALSE
  /\ relAt = -1 /\ relTry = 0 /\ result = "none"
  /\ excPath = FALSE /\ callNo = 0 /\ firstTries = 0 /\ firstResult = "none"

\* No call of embed_transcribe_speakers is followed.
IdleRecognize ==
  /\ words = <<>> /\ ndim = <<>> /\ phrases = <<>>
  /\ gpc = "off" /\ pidx = 0 /\ printed = <<>>

InitHandlers ==
  /\ obsSess = [o \in Observers |-> "s1"]
  /\ evq = [o \in Observers |-> <<>>]
  /\ hpc = [o \in Observers |-> "idle"]
  /\ cur = [o \in Observers |-> NoFile]
  /\ delCount = [o \in Observers |-> 0]
  /\ raised = [o \in Observers |-> FALSE]
  /\ outcome = [o \in Observers |-> "none"]
  /\ procLog = [o \in Observers |-> <<>>]

\* The server has just been started: nothing is recorded, registered or queued.
InitSystem ==
  /\ dir = {}
  /\ nextSeq = [s \in Sessions |-> 1]
  /\ recording = {}
  /\ InitRequests
  /\ InitHandlers
  /\ obsState = [o \in Observers |-> "none"]
  /\ queue = [o \in Observers |-> <<>>]
  /\ entered = [o \in Observers |-> <<>>]
  /\ scanned = [o \in Observers |-> 0]

\* the running server's initial state
Init == InitSystem /\ IdleDelete /\ IdleRecognize

(***************************************************************************)
(* SpecQueue: one ProcessAudioQueue (observer number 1 stands for it, no   *)
(* watcher attached) whose caller enqueues and dequeues in any order.      *)
(***************************************************************************)
TheQueue == 1

InitQueue ==
  /\ dir \in SUBSET SegmentFiles
  /\ nextSeq = [s \in Sessions |-> 1]
  /\ recording = {}
  /\ InitRequests
  /\ InitHandlers
  /\ obsState = [o \in Observers |-> IF o = TheQueue THEN "created" ELSE "none"]
  /\ queue = [o \in Observers |-> IF o = TheQueue THEN LoadFiles("s1", dir) ELSE <<>>]
  /\ entered = queue
  /\ scanned = [o \in Observers |-> Len(queue[o])]
  /\ IdleDelete /\ IdleRecognize

\* the caller's enqueue(file_name)
QEnqueue(f) ==
  /\ hpc[TheQueue] = "idle"
  /\ Len(entered[TheQueue]) - scanned[TheQueue] < MaxEnq
  /\ queue' = [queue EXCEPT ![TheQueue] = Enqueue(@, f)]
  /\ entered' = [entered EXCEPT ![TheQueue] = Append(@, f)]
  /\ UNCHANGED <<fnVars, fsVars, regVars, reqVars, obsVars, hpc, cur, delCount, raised,
                 outcome, procLog, scanned>>

\* the caller's dequeue() on a queue that holds something
QDequeue ==
  /\ hpc[TheQueue] = "idle"
  /\ PopLeft(TheQueue, queue[TheQueue])
  /\ procLog' = [procLog EXCEPT ![TheQueue] =
                   IF Truthy(Head(queue[TheQueue])) THEN Append(@, Head(queue[TheQueue]))
                   ELSE @]
  /\ UNCHANGED <<fnVars, fsVars, regVars, reqVars, obsVars, entered, scanned>>

\* the caller's dequeue() on an empty queue: "Queue is empty."
QDequeueEmpty ==
  /\ hpc[TheQueue] = "idle"
  /\ queue[TheQueue] = <<>>
  /\ outcome' = [outcome EXCEPT ![TheQueue] = "empty"]
  /\ raised' = [raised EXCEPT ![TheQueue] = FALSE]
  /\ UNCHANGED <<fnVars, fsVars, regVars, reqVars, obsVars, queue, hpc, cur, delCount, logVars>>

NextQueue ==
  \/ \E f \in SegmentFiles \cup {EmptyName} : QEnqueue(f)
  \/ QDequeue
  \/ QDequeueEmpty
  \/ ProcessReturns(TheQueue)
  \/ ProcessRaises(TheQueue)

SpecQueue == InitQueue /\ [][NextQueue]_vars

(***************************************************************************)
(* Claims settled under SpecQueue.                                         *)
(***************************************************************************)
\* C1: every file name that is dequeued is passed to _delete_file exactly
\* once, when process_file returns normally and when it raises: a dequeue call
\* that has returned made exactly one _delete_file call for its name.
C1_CleanupExactlyOnce ==
  \A o \in Observers :
    outcome[o] = "returned" => delCount[o] = 1

\* C3: within one queue the names reach process_file in the order in which
\* they entered it: the names of the construction-time scan first, in
\* ascending name order, then the enqueued names in arrival order.
C3_FifoOrder ==
  \A o \in Observers :
    /\ IsPrefix(procLog[o], SelectSeq(entered[o], Truthy))
    /\ scanned[o] <= Len(entered[o])
    /\ \A i, j \in 1..scanned[o] : i < j => NameLess(entered[o][i], entered[o][j])

\* C3's case: two scanned names and an enqueued one have all been processed.
C3_Witness ==
  /\ scanned[TheQueue] >= 2
  /\ Len(procLog[TheQueue]) > scanned[TheQueue]

\* C9, state part: when process_file raised inside dequeue, the call does not
\* let the exception out but returns, and the names pending after it are
\* exactly those that entered the queue after the failed one, in order: the
\* failed name is no longer among them.
C9_FailedNameLeftQueue ==
  \A o \in Observers :
    raised[o] =>
      /\ outcome[o] = "returned" /\ hpc[o] = "idle"
      /\ procLog[o] # <<>>
      /\ SelectSeq(entered[o], Truthy) = procLog[o] \o SelectSeq(queue[o], Truthy)

\* C9, step part: the dequeue that follows a failed one hands process_file the
\* first pending name.
C9_NextDequeueTakesNext ==
  \A o \in Observers :
    (raised[o] /\ procLog'[o] # procLog[o]) =>
      /\ outcome[o] = "returned"
      /\ procLog'[o] = Append(procLog[o], Head(SelectSeq(queue[o], Truthy)))

\* C9: a pipeline failure on one segment cannot jam the queue.
C9_FailureDoesNotJam ==
  [](C9_FailedNameLeftQueue) /\ [][C9_NextDequeueTakesNext]_vars

\* C9's case: a dequeue whose process_file raised has returned while further
\* names are pending.
C9_Witness ==
  /\ raised[TheQueue]
  /\ outcome[TheQueue] = "returned"
  /\ queue[TheQueue] # <<>>

(***************************************************************************)
(* SpecDelete: one call of _delete_file(file_name) while another holder    *)
(* may have the file open.  Time is counted in ticks of a quarter of a     *)
(* time unit, from the first attempt; an attempt takes no time, a sleep    *)
(* takes wait_time.                                                        *)
(***************************************************************************)
\* max_retries=5
max_retries == 5
\* wait_time=0.5, in ticks
wait_time == 2

\* _delete_file is entered, called from the dequeue paths in 'paths' (TRUE:
\* process_file raised).
InitCall(paths) ==
  /\ InitSystem /\ IdleRecognize
  /\ dpc = "try" /\ retries = 0 /\ clock = 0
  /\ exists \in BOOLEAN
  /\ held \in {h \in BOOLEAN : h => exists}
  /\ relAt = -1 /\ relTry = 0 /\ result = "none"
  /\ excPath \in paths
  /\ callNo = 1 /\ firstTries = 0 /\ firstResult = "none"

InitDelete == InitCall({FALSE})

\* a loop that gives up after the first failed attempt
KeepTryingOnce == retries < 1

\* while retries < max_retries
KeepTrying == retries < max_retries

DeleteReturns(res) ==
  /\ dpc' = "returned"
  /\ result' = res

\* os.path.exists, open(full_path, 'r+') and os.remove all go through
AttemptRemoves ==
  /\ dpc = "try" /\ KeepTrying
  /\ exists /\ ~held
  /\ exists' = FALSE
  /\ DeleteReturns("deleted")
  /\ UNCHANGED <<sysVars, recVars, dqVars, retries, clock, held, relAt, relTry>>

\* os.path.exists is false: "File does not exist"
AttemptAbsent ==
  /\ dpc = "try" /\ KeepTrying
  /\ ~exists
  /\ DeleteReturns("absent")
  /\ UNCHANGED <<sysVars, recVars, dqVars, retries, clock, exists, held, relAt, relTry>>

\* open raises PermissionError: retries += 1, then time.sleep(wait_time)
AttemptDenied ==
  /\ dpc = "try" /\ KeepTrying
  /\ exists /\ held
  /\ retries' = retries + 1
  /\ dpc' = "sleep"
  /\ UNCHANGED <<sysVars, recVars, dqVars, clock, exists, held, relAt, relTry, result>>

\* the sleep is over and the loop goes round
WakeRetry ==
  /\ dpc = "sleep" /\ clock = retries * wait_time
  /\ KeepTrying
  /\ dpc' = "try"
  /\ UNCHANGED <<sysVars, recVars, dqVars, retries, clock, exists, held, relAt, relTry, result>>

\* the sleep is over and the loop ends: "Failed to delete file after ..."
WakeGiveUp ==
  /\ dpc = "sleep" /\ clock = retries * wait_time
  /\ ~KeepTrying
  /\ DeleteReturns("failed")
  /\ UNCHANGED <<sysVars, recVars, dqVars, retries, clock, exists, held, relAt, relTry>>

\* time passes while _delete_file sleeps
Tick ==
  /\ dpc = "sleep" /\ clock < retries * wait_time
  /\ clock' = clock + 1
  /\ UNCHANGED <<sysVars, recVars, dqVars, dpc, retries, exists, held, relAt, relTry, result>>

\* the other holder closes the file
Release ==
  /\ dpc \in {"try", "sleep"}
  /\ held
  /\ held' = FALSE
  /\ relAt' = clock
  /\ relTry' = retries
  /\ UNCHANGED <<sysVars, recVars, dqVars, dpc, retries, clock, exists, result>>

\* the file, no longer held, is removed by someone else (another queue's
\* cleanup of the same name): the next attempt finds it gone
RemovedElsewhere ==
  /\ dpc \in {"try", "sleep"}
  /\ exists /\ ~held
  /\ exists' = FALSE
  /\ UNCHANGED <<sysVars, recVars, dqVars, dpc, retries, clock, held, relAt, relTry, result>>

NextDelete ==
  \/ AttemptRemoves
  \/ AttemptAbsent
  \/ AttemptDenied
  \/ WakeRetry
  \/ WakeGiveUp
  \/ Tick
  \/ Release
  \/ RemovedElsewhere

SpecDelete == InitDelete /\ [][NextDelete]_vars

(***************************************************************************)
(* Claims settled under SpecDelete.                                        *)
(***************************************************************************)
\* The call has returned and the file was held open at the first attempt.
ReturnedFromLocked == dpc = "returned" /\ (held \/ relAt >= 0)

\* The call found the file deletable: it removed it, or found it removed.
FileGone == result \in {"deleted", "absent"} /\ ~exists

\* The call gave up and removed nothing: the file is on disk for as long as
\* its holder keeps it.
FileLeft == result = "failed" /\ (held => exists)

\* C8 as claimed: the deletion of a file locked by another holder succeeds
\* if the lock is released at any time within 5 x 0.5 time units after the
\* first attempt, and otherwise ends as a failure that leaves the file on
\* disk.
C8_SucceedsWithinWindow ==
  ReturnedFromLocked =>
    IF relAt >= 0 /\ relAt <= max_retries * wait_time
      THEN FileGone
      ELSE FileLeft

\* C8 as amended: the deletion succeeds if and only if the lock is released
\* before the fifth and last attempt, which is made 4 x 0.5 time units after
\* the first - any release earlier than that is in time; otherwise the call
\* ends as a failure that leaves the file on disk.  The call always ends by
\* returning.
C8_SucceedsBeforeLastAttempt ==
  /\ ReturnedFromLocked =>
       IF relAt >= 0 /\ relTry < max_retries
         THEN FileGone
         ELSE FileLeft
  /\ (relAt >= 0 /\ relAt < (max_retries - 1) * wait_time) => relTry < max_retries
  /\ dpc = "returned" => result \in {"deleted", "absent", "failed"}

\* C8's case: the holder let go between the fourth and the fifth attempt and
\* the fifth attempt deleted the file.
C8_Witness ==
  /\ dpc = "returned" /\ result = "deleted"
  /\ relTry = max_retries - 1

(***************************************************************************)
(* SpecCleanup: the _delete_file calls of one dequeue: one call at line 69 *)
(* when process_file returned, the call at line 68 and then the call at    *)
(* line 69 when it raised.                                                 *)
(***************************************************************************)
InitCleanup == InitCall(BOOLEAN)

\* line 69 after the except block: _delete_file is entered again for the
\* same name, with retries = 0
SecondCall ==
  /\ excPath /\ callNo = 1
  /\ dpc = "returned"
  /\ callNo' = 2
  /\ firstTries' = retries
  /\ firstResult' = result
  /\ dpc' = "try" /\ retries' = 0 /\ clock' = 0 /\ result' = "none"
  /\ UNCHANGED <<sysVars, recVars, exists, held, relAt, relTry, excPath>>

NextCleanup ==
  \/ AttemptRemoves
  \/ AttemptAbsent
  \/ AttemptDenied
  \/ WakeRetry
  \/ WakeGiveUp
  \/ Tick
  \/ Release
  \/ RemovedElsewhere
  \/ SecondCall

SpecCleanup == InitCleanup /\ [][NextCleanup]_vars

(***************************************************************************)
(* Claims settled under SpecCleanup.                                       *)
(***************************************************************************)
\* The deletion attempts (open and remove) made on the file by the dequeue:
\* the denied ones of both calls and the one that removed it.
Attempts ==
  firstTries + retries
    + (IF firstResult = "deleted" THEN 1 ELSE 0)
    + (IF result = "deleted" THEN 1 ELSE 0)

\* C16: for one dequeued file at most 5 deletion attempts are ever made, and
\* once a call has exhausted its retries and logged the failure no later
\* attempt is made on the file, whether process_file returned or raised.
C16_AtMostFiveAttempts ==
  /\ Attempts <= max_retries
  /\ firstResult = "failed" => retries = 0 /\ result # "deleted"

(***************************************************************************)
(* SpecRecognize: one call of embed_transcribe_speakers on a file whose    *)
(* transcript is one aligned segment.  The models' outputs (the speaker    *)
(* tags of the words, the shape of each cropped embedding, the mean cosine *)
(* similarities, in hundredths) are inputs.                                *)
(***************************************************************************)
\* words of the aligned segment
MaxWords == 3

\* the tags assign_word_speakers gives
Tags == {"SPEAKER_00", "SPEAKER_01"}
\* speaker = {"Trump" : 0, "Kamala" : 0}, in the dict's order
Banks == <<"Trump", "Kamala">>
BankSet == {Banks[i] : i \in 1..Len(Banks)}
\* mean similarities, in hundredths
Scores == {-5, 5, 10, 30}
\* if speaker_similarity < 0.1, in hundredths
Threshold == 10
\* what recognize_speaker returns for an embedding that is not 1-D
None == [b \in {} |-> 0]

\* The i-th word: it is spoken from i-1 to i and its text is i.
Word(i, t) == [speaker |-> t, word |-> i, start |-> i - 1, end |-> i]

InitRecognize ==
  /\ InitSystem /\ IdleDelete
  /\ \E n \in 0..MaxWords : \E tags \in [1..n -> Tags] :
       words = [i \in 1..n |-> Word(i, tags[i])]
  /\ ndim \in [Tags -> {1, 2}]
  /\ phrases = <<>>
  /\ gpc = "words" /\ pidx = 0 /\ printed = <<>>

\* word["speaker"] in phrases / not in phrases; the body of the for loop
HasKey(ph, k) == \E i \in 1..Len(ph) : ph[i].key = k
KeyIndex(ph, k) == CHOOSE i \in 1..Len(ph) : ph[i].key = k
AddWord(ph, w) ==
  IF HasKey(ph, w.speaker)
    THEN [ph EXCEPT ![KeyIndex(ph, w.speaker)] =
            [@ EXCEPT !.text = @ \o <<w.word>>, !.end = w.end]]
    ELSE Append(ph, [key |-> w.speaker, text |-> <<w.word>>,
                     start |-> w.start, end |-> w.end])

RECURSIVE GroupWords(_)
\* for word in segments["words"]: ...
GroupWords(ws) ==
  IF ws = <<>> THEN <<>>
  ELSE AddWord(GroupWords(SubSeq(ws, 1, Len(ws) - 1)), ws[Len(ws)])

\* recognize_speaker(speaker_embedding, ...)
recognize_speaker(nd, trump, kamala) ==
  IF nd = 1
    THEN [b \in BankSet |-> IF b = "Trump" THEN trump ELSE kamala]
    ELSE None

\* max(similarities.values())
MaxValue(sim) == CHOOSE v \in {sim[b] : b \in BankSet} : \A b \in BankSet : sim[b] <= v
\* a max that keeps the last key of the largest value
MaxKeyLast(sim) ==
  Banks[CHOOSE i \in 1..Len(Banks) :
          /\ sim[Banks[i]] = MaxValue(sim)
          /\ \A j \in (i + 1)..Len(Banks) : sim[Banks[j]] < MaxValue(sim)]

\* max(similarities, key=similarities.get): the first key of the largest value
MaxKey(sim) ==
  Banks[CHOOSE i \in 1..Len(Banks) :
          /\ sim[Banks[i]] = MaxValue(sim)
          /\ \A j \in 1..(i - 1) : sim[Banks[j]] < MaxValue(sim)]

\* a test that also rejects a score equal to the threshold
BelowOrAtThreshold(x) == x <= Threshold

\* speaker_similarity < 0.1
BelowThreshold(x) == x < Threshold

SpeakerName(sim) == IF BelowThreshold(MaxValue(sim)) THEN "Unknown" ELSE MaxKey(sim)

\* lines 98-104: the words are grouped
Group ==
  /\ gpc = "words"
  /\ phrases' = GroupWords(words)
  /\ gpc' = IF GroupWords(words) = <<>> THEN "done" ELSE "phrases"
  /\ UNCHANGED <<sysVars, delVars, words, ndim, pidx, printed>>

\* lines 105-115 for the next phrase, the embedding being 1-D
IdentifyPrints ==
  /\ gpc = "phrases"
  /\ \E trump, kamala \in Scores :
       LET ph == phrases[pidx + 1]
           similarities == recognize_speaker(ndim[ph.key], trump, kamala)
       IN /\ similarities # None
          /\ printed' = Append(printed,
                               [speaker_name |-> SpeakerName(similarities),
                                speaker_similarity |-> MaxValue(similarities),
                                text |-> ph.text,
                                key |-> ph.key,
                                similarities |-> similarities])
  /\ pidx' = pidx + 1
  /\ gpc' = IF pidx + 1 = Len(phrases) THEN "done" ELSE "phrases"
  /\ UNCHANGED <<sysVars, delVars, words, ndim, phrases>>

\* lines 105-109 for the next phrase, the embedding not being 1-D:
\* similarities is None, similarities.values() raises AttributeError, which
\* leaves embed_transcribe_speakers
IdentifyRaises ==
  /\ gpc = "phrases"
  /\ recognize_speaker(ndim[phrases[pidx + 1].key], 0, 0) = None
  /\ gpc' = "raised"
  /\ UNCHANGED <<sysVars, delVars, words, ndim, phrases, pidx, printed>>

NextRecognize ==
  \/ Group
  \/ IdentifyPrints
  \/ IdentifyRaises

SpecRecognize == InitRecognize /\ [][NextRecognize]_vars

(***************************************************************************)
(* Claims settled under SpecRecognize.                                     *)
(***************************************************************************)
\* phrase k of the segment has a printed line
Logged(k) == \E i \in 1..Len(printed) : printed[i].key = phrases[k].key

\* C5: an embedding that is not one-dimensional does not abort the segment:
\* the call ends normally, and every phrase of the segment whose embedding
\* is one-dimensional has been identified and logged.
C5_BadShapeSkipsOnePhrase ==
  gpc \in {"done", "raised"} =>
    /\ gpc = "done"
    /\ \A k \in 1..Len(phrases) : ndim[phrases[k].key] = 1 => Logged(k)

\* C6: for every assignment of scores to the banks, the reported score is
\* the largest of them; the reported speaker is a bank with that score when
\* it is at least 0.1 (0.1 included), and "Unknown" when it is below 0.1,
\* whichever bank scored highest.
C6_MaxScoreOrUnknown ==
  \A i \in 1..Len(printed) :
    LET p == printed[i] IN
      /\ \A b \in BankSet : p.similarities[b] <= p.speaker_similarity
      /\ \E b \in BankSet : p.similarities[b] = p.speaker_similarity
      /\ p.speaker_similarity >= 10 =>
           /\ p.speaker_name \in BankSet
           /\ p.similarities[p.speaker_name] = p.speaker_similarity
      /\ p.speaker_similarity < 10 => p.speaker_name = "Unknown"

\* C6's cases: one phrase scored exactly 0.1 and was given to the second
\* bank, another scored below 0.1 with one bank ahead and is "Unknown".
C6_Witness ==
  \E i, j \in 1..Len(printed) :
    /\ printed[i].speaker_similarity = 10 /\ printed[i].speaker_name = "Kamala"
    /\ printed[j].speaker_similarity < 10 /\ printed[j].speaker_name = "Unknown"
    /\ printed[j].similarities["Trump"] # printed[j].similarities["Kamala"]

\* C17: when the two banks have equal maximum scores of at least 0.1, the
\* reported speaker is the bank iterated first, "Trump"; and the result is
\* deterministic: equal scores always give the same speaker.
C17_TieGoesToFirstBank ==
  \A i \in 1..Len(printed) :
    /\ (/\ printed[i].similarities["Trump"] = printed[i].similarities["Kamala"]
        /\ printed[i].similarities["Trump"] >= 10)
         => printed[i].speaker_name = Banks[1]
    /\ \A j \in 1..Len(printed) :
         printed[i].similarities = printed[j].similarities
           => printed[i].speaker_name = printed[j].speaker_name

\* C17's case: two phrases of one segment both scored the same tie above
\* the threshold.
C17_Witness ==
  \E i, j \in 1..Len(printed) :
    /\ i # j
    /\ printed[i].similarities = printed[j].similarities
    /\ printed[i].similarities["Trump"] = printed[i].similarities["Kamala"]
    /\ printed[i].speaker_similarity > 10

\* One phrase per maximal run of words of one speaker, in word order.
RunAdd(ph, w) ==
  IF ph # <<>> /\ ph[Len(ph)].key = w.speaker
    THEN [ph EXCEPT ![Len(ph)] = [@ EXCEPT !.text = @ \o <<w.word>>, !.end = w.end]]
    ELSE Append(ph, [key |-> w.speaker, text |-> <<w.word>>,
                     start |-> w.start, end |-> w.end])

RECURSIVE Runs(_)
Runs(ws) ==
  IF ws = <<>> THEN <<>>
  ELSE RunAdd(Runs(SubSeq(ws, 1, Len(ws) - 1)), ws[Len(ws)])

\* C7: grouping yields one phrase per maximal run of consecutive words with
\* the same speaker tag, in word order, each phrase starting at its first
\* word's start, ending at its last word's end, its text being that run's
\* words.
C7_PhrasesAreMaximalRuns == gpc \notin {"off", "words"} => phrases = Runs(words)

(***************************************************************************)
(* Spec: the running server.  control_audio invocations (request threads), *)
(* the observers' dispatch threads and the recorder run interleaved.       *)
(***************************************************************************)
\* ---- the recorder (AudioPlayer, outside src/) and watchdog's delivery

\* The recorder writes the next segment of a session being recorded; every
\* started, not stopped observer of TEMP_AUDIO_DIR gets the creation event.
CreateFile(s) ==
  /\ s \in recording
  /\ nextSeq[s] <= MaxSeq
  /\ nextSeq["s1"] + nextSeq["s2"] - 2 < MaxFiles
  /\ LET f == FileName(s, nextSeq[s]) IN
       /\ dir' = dir \cup {f}
       /\ evq' = [o \in Observers |->
                    IF obsState[o] = "running" THEN Append(evq[o], f) ELSE evq[o]]
  /\ nextSeq' = [nextSeq EXCEPT ![s] = @ + 1]
  /\ UNCHANGED <<fnVars, recording, regVars, reqVars, obsState, obsSess, qVars, logVars>>

\* FileCreationHandler.on_created up to the call of process_file: the
\* observer's thread takes the next event (the name of a .wav file), enqueues
\* the name and dequeues.
OnCreated(o) ==
  /\ obsState[o] = "running"
  /\ hpc[o] = "idle"
  /\ evq[o] # <<>>
  /\ PopLeft(o, Enqueue(queue[o], Head(evq[o])))
  /\ evq' = [evq EXCEPT ![o] = Tail(@)]
  /\ UNCHANGED <<fnVars, fsVars, regVars, reqVars, obsState, obsSess, logVars>>

\* ---- control_audio
\* An invocation reads its request (lines 78-81: action, videoName, the
\* session id) when it starts; none of that touches shared state, so the
\* first step of an invocation is the first line that does or that ends it.

\* The invocation ends with a response; its session id is forgotten.
Return(r, v, response) ==
  /\ rpc' = [rpc EXCEPT ![r] = "done"]
  /\ rvideo' = [rvideo EXCEPT ![r] = v]
  /\ resp' = [resp EXCEPT ![r] = response]
  /\ rsess' = [rsess EXCEPT ![r] = "s1"]

Arrives(r) ==
  /\ rpc[r] = "new"
  /\ \A q \in Requests : q < r => rpc[q] # "new"

\* lines 83-85, any action: the video is not on disk: HTTPException 404; the
\* request has no videoName: os.path.join raises TypeError, a 500.
RejectVideo(r) ==
  /\ Arrives(r)
  /\ \E v \in {"missing", "none"} : Return(r, v, IF v = "missing" THEN "404" ELSE "500")
  /\ UNCHANGED <<fnVars, fsVars, regVars, obsVars, qVars, logVars>>

\* An exception leaves control_audio: the with block releases the lock, the
\* caller gets a 500.
FailUncaught(r) ==
  /\ Return(r, "present", "500")
  /\ active_threads_lock' = IF active_threads_lock = r THEN 0 ELSE active_threads_lock

\* An exception inside the try statement: the with block releases the lock if
\* it is held, lines 106-109 print and return {"status": "ok"}.
Fail(r) ==
  /\ Return(r, "present", "ok")
  /\ active_threads_lock' = IF active_threads_lock = r THEN 0 ELSE active_threads_lock

\* action 'play', the video on disk, lines 88-92: set_session and
\* audio_player.play return; recording starts.
PlayAudio(r) ==
  /\ Arrives(r)
  /\ \E s \in Sessions :
       /\ rsess' = [rsess EXCEPT ![r] = s]
       /\ recording' = recording \cup {s}
  /\ rvideo' = [rvideo EXCEPT ![r] = "present"]
  /\ rpc' = [rpc EXCEPT ![r] = "lock"]
  /\ UNCHANGED <<fnVars, dir, nextSeq, regVars, resp, obsVars, qVars, logVars>>

\* action 'play', lines 88-92: set_session or audio_player.play raises.
PlayAudioRaises(r) ==
  /\ Arrives(r)
  /\ Fail(r)
  /\ UNCHANGED <<fnVars, fsVars, active_threads, obsVars, qVars, logVars>>

\* a pause that also stops the watcher registered for the session
PauseAudioStops(r) ==
  /\ Arrives(r)
  /\ \E s \in Sessions :
       /\ recording' = recording \ {s}
       /\ obsState' = [o \in Observers |->
                         IF o = active_threads[s] /\ obsState[o] = "running"
                           THEN "stopped" ELSE obsState[o]]
  /\ Return(r, "present", "ok")
  /\ UNCHANGED <<fnVars, dir, nextSeq, regVars, obsSess, evq, qVars, logVars>>

\* action 'pause', lines 103-104 and 109: audio_player.pause returns;
\* recording stops.
PauseAudio(r) ==
  /\ Arrives(r)
  /\ \E s \in Sessions : recording' = recording \ {s}
  /\ Return(r, "present", "ok")
  /\ UNCHANGED <<fnVars, dir, nextSeq, regVars, obsVars, qVars, logVars>>

\* action 'pause', lines 88, 104: set_session or audio_player.pause raises.
PauseAudioRaises(r) ==
  /\ Arrives(r)
  /\ Fail(r)
  /\ UNCHANGED <<fnVars, fsVars, active_threads, obsVars, qVars, logVars>>

\* An action that is neither play nor pause: lines 88-89, then line 109.
OtherAction(r) ==
  /\ Arrives(r)
  /\ Return(r, "present", "ok")
  /\ UNCHANGED <<fnVars, fsVars, regVars, obsVars, qVars, logVars>>

\* line 93 entered without waiting for the lock.
LockIgnored == TRUE
\* line 93: with active_threads_lock blocks while another invocation holds it.
LockFree == active_threads_lock = 0

\* lines 93-94, no entry for the session: the lock is taken, line 97 is next.
AcquireNoPrev(r) ==
  /\ rpc[r] = "lock"
  /\ LockFree
  /\ active_threads[rsess[r]] = 0
  /\ active_threads_lock' = r
  /\ rpc' = [rpc EXCEPT ![r] = "construct"]
  /\ UNCHANGED <<fnVars, fsVars, active_threads, rsess, rvideo, resp, obsVars, qVars, logVars>>

\* lines 93-95: the lock is taken and the registered observer is told to
\* stop; its emitter ends, its thread ends after the handler call it is in.
AcquireStopPrev(r) ==
  /\ rpc[r] = "lock"
  /\ LockFree
  /\ active_threads[rsess[r]] # 0
  /\ active_threads_lock' = r
  /\ LET o == active_threads[rsess[r]] IN
       obsState' = [obsState EXCEPT ![o] = IF @ = "running" THEN "stopped" ELSE @]
  /\ rpc' = [rpc EXCEPT ![r] = "join"]
  /\ UNCHANGED <<fnVars, fsVars, active_threads, rsess, rvideo, resp, obsSess, evq, qVars,
                 logVars>>

\* line 96 returning while the observer's thread is still inside a handler
\* call.
JoinPrevNoWait(r) ==
  /\ rpc[r] = "join"
  /\ obsState' = [obsState EXCEPT ![active_threads[rsess[r]]] = "dead"]
  /\ rpc' = [rpc EXCEPT ![r] = "construct"]
  /\ UNCHANGED <<fnVars, fsVars, regVars, rsess, rvideo, resp, obsSess, evq, qVars, logVars>>

\* line 96: join returns once the observer's thread has ended, which it does
\* after the handler call it is in.  The events it had not dispatched are
\* dropped; its handler and queue are not used again.
JoinPrev(r) ==
  /\ rpc[r] = "join"
  /\ LET o == active_threads[rsess[r]] IN
       /\ hpc[o] = "idle"
       /\ obsState' = [obsState EXCEPT ![o] = "dead"]
       /\ evq' = [evq EXCEPT ![o] = <<>>]
       /\ queue' = [queue EXCEPT ![o] = <<>>]
       /\ cur' = [cur EXCEPT ![o] = NoFile]
       /\ delCount' = [delCount EXCEPT ![o] = 0]
       /\ raised' = [raised EXCEPT ![o] = FALSE]
       /\ outcome' = [outcome EXCEPT ![o] = "none"]
  /\ rpc' = [rpc EXCEPT ![r] = "construct"]
  /\ UNCHANGED <<fnVars, fsVars, regVars, rsess, rvideo, resp, obsSess, hpc, logVars>>

\* line 97: FileCreationHandler.__init__ builds the ProcessAudioQueue, whose
\* __init__ ends with _load_files.
Construct(r) ==
  /\ rpc[r] = "construct"
  /\ obsState' = [obsState EXCEPT ![r] = "created"]
  /\ obsSess' = [obsSess EXCEPT ![r] = rsess[r]]
  /\ queue' = [queue EXCEPT ![r] = LoadFiles(rsess[r], dir)]
  /\ rpc' = [rpc EXCEPT ![r] = "start"]
  /\ UNCHANGED <<fnVars, fsVars, regVars, rsess, rvideo, resp, evq, hpc, cur,
                 delCount, raised, outcome, logVars>>

\* line 97 raises (lines 29-33 load models): no handler, no queue.
ConstructRaises(r) ==
  /\ rpc[r] = "construct"
  /\ Fail(r)
  /\ UNCHANGED <<fnVars, fsVars, active_threads, obsVars, qVars, logVars>>

\* lines 98-102, the end of the with block and line 109: the new observer is
\* scheduled on TEMP_AUDIO_DIR, started and registered, the lock released.
StartObserver(r) ==
  /\ rpc[r] = "start"
  /\ obsState' = [obsState EXCEPT ![r] = "running"]
  /\ active_threads' = [active_threads EXCEPT ![rsess[r]] = r]
  /\ active_threads_lock' = 0
  /\ Return(r, "present", "ok")
  /\ UNCHANGED <<fnVars, fsVars, obsSess, evq, qVars, logVars>>

\* lines 98-100 raise: the observer never ran, the handler and its queue are
\* dropped.
StartRaises(r) ==
  /\ rpc[r] = "start"
  /\ Fail(r)
  /\ queue' = [queue EXCEPT ![r] = <<>>]
  /\ UNCHANGED <<fnVars, fsVars, active_threads, obsVars, hpc, cur, delCount, raised, outcome,
                 logVars>>

Next ==
  \/ \E s \in Sessions : CreateFile(s)
  \/ \E o \in Observers : OnCreated(o)
  \/ \E o \in Observers : ProcessReturns(o)
  \/ \E o \in Observers : ProcessRaises(o)
  \/ \E r \in Requests : RejectVideo(r)
  \/ \E r \in Requests : PlayAudio(r)
  \/ \E r \in Requests : PlayAudioRaises(r)
  \/ \E r \in Requests : PauseAudio(r)
  \/ \E r \in Requests : PauseAudioRaises(r)
  \/ \E r \in Requests : OtherAction(r)
  \/ \E r \in Requests : AcquireNoPrev(r)
  \/ \E r \in Requests : AcquireStopPrev(r)
  \/ \E r \in Requests : JoinPrev(r)
  \/ \E r \in Requests : Construct(r)
  \/ \E r \in Requests : ConstructRaises(r)
  \/ \E r \in Requests : StartObserver(r)
  \/ \E r \in Requests : StartRaises(r)

Spec == Init /\ [][Next]_vars

(***************************************************************************)
(* Claims settled under Spec.                                              *)
(***************************************************************************)
\* The steps of an observer's thread: delivering the next pending event and
\* ending the pipeline call in progress.
HandlerStep ==
  \E o \in Observers : OnCreated(o) \/ ProcessReturns(o) \/ ProcessRaises(o)

\* The steps of an invocation of control_audio past its first one.
RequestStep ==
  \E r \in Requests :
    \/ AcquireNoPrev(r) \/ AcquireStopPrev(r) \/ JoinPrev(r)
    \/ Construct(r) \/ ConstructRaises(r)
    \/ StartObserver(r) \/ StartRaises(r)

\* Every pipeline call terminates, events are delivered, and an invocation
\* that can go on does; the recorder and the callers are free to stop.
SpecLive == Spec /\ WF_vars(HandlerStep) /\ WF_vars(RequestStep)

\* C2: every file name that enters a session's queue, by the scan at
\* construction or by a creation event, is eventually dequeued and passed to
\* cleanup: a name in a running observer's queue leads to that observer's
\* pipeline call on it, which cleanup follows - unless the watcher is stopped
\* first, and at the latest once its session is no longer being recorded.
C2_EveryNameCleaned ==
  \A o \in Observers : \A f \in SegmentFiles :
    (obsState[o] = "running" /\ \E i \in 1..Len(queue[o]) : queue[o][i] = f)
      ~> \/ obsState[o] # "running"
         \/ hpc[o] = "process" /\ cur[o] = f
         \/ obsSess[o] \in recording

\* The started, not stopped observers whose handler serves session s.
LiveFor(s) == {o \in Observers : obsState[o] = "running" /\ obsSess[o] = s}

\* C4, state part: at every moment a session has at most one live watcher.
C4_AtMostOneLive == \A s \in Sessions : Cardinality(LiveFor(s)) <= 1

\* C4, step part: the step that completes a play starts the new watcher with
\* the previously registered one stopped and joined, and leaves the new one
\* the session's only live watcher and the registered one.
C4_PlayInstallsOne ==
  \A r \in Requests :
    (rpc[r] = "start" /\ obsState'[r] = "running") =>
      /\ active_threads[rsess[r]] # 0 => obsState[active_threads[rsess[r]]] = "dead"
      /\ active_threads'[rsess[r]] = r
      /\ {o \in Observers : obsState'[o] = "running" /\ obsSess'[o] = rsess[r]} = {r}

\* C4: after any sequence of play calls, concurrent ones included, a session
\* has at most one live watcher at every moment, exactly one live watcher is
\* registered after each completed play, and the previous watcher is stopped
\* and joined before the new one is started.
C4_OneLiveWatcher == [](C4_AtMostOneLive) /\ [][C4_PlayInstallsOne]_vars

\* C4's case: two plays of one session have completed in succession.
C4_Witness ==
  \E s \in Sessions :
    /\ active_threads[s] = 2
    /\ obsState[2] = "running"
    /\ obsState[1] = "dead" /\ obsSess[1] = s

\* C10 as claimed: every request handled by control_audio, play and pause
\* included, ends with {"status": "ok"}, whatever its input.
C10_AlwaysOk == \A r \in Requests : rpc[r] = "done" => resp[r] = "ok"

\* C10 as amended: a request that names a video on disk ends with
\* {"status": "ok"} whatever fails inside the transition; a request that
\* names a video not on disk ends with the 404.
C10_OkWhenVideoExists ==
  \A r \in Requests :
    rpc[r] = "done" =>
      /\ rvideo[r] = "present" => resp[r] = "ok"
      /\ rvideo[r] = "missing" => resp[r] = "404"

\* C10's case: a play whose new observer could not be started (the handler
\* was built, the observer never ran) has been answered with "ok".
C10_Witness ==
  \E r \in Requests :
    /\ rpc[r] = "done" /\ resp[r] = "ok"
    /\ obsState[r] = "created"

\* The invocations inside the play critical section (lines 94-102).
InSection == {r \in Requests : rpc[r] \in {"join", "construct", "start"}}

\* C11: in every state outside the play critical section the watcher
\* registered for a session is live - a play that fails after it stopped the
\* previous watcher does not leave the stopped watcher registered - and a
\* session never has two live watchers.
C11_RegisteredIsLive ==
  /\ \A s \in Sessions :
       (active_threads[s] # 0 /\ \A r \in InSection : rsess[r] # s) =>
         obsState[active_threads[s]] = "running"
  /\ \A s \in Sessions : Cardinality(LiveFor(s)) <= 1

\* C12, state part: an invocation inside the critical section holds the
\* lock, so no two are inside it at once, and the lock is held by nobody else.
C12_SectionUnderLock ==
  /\ \A r \in InSection : active_threads_lock = r
  /\ active_threads_lock # 0 => active_threads_lock \in InSection

\* C12, step part: the session-to-watcher map is written, and a watcher is
\* stopped or joined, only by the invocation that holds the lock, for its own
\* session.
C12_WritesUnderLock ==
  /\ \A s \in Sessions :
       active_threads'[s] # active_threads[s] =>
         /\ active_threads_lock \in InSection
         /\ rsess[active_threads_lock] = s
         /\ active_threads'[s] = active_threads_lock
  /\ \A o \in Observers :
       (obsState'[o] # obsState[o] /\ obsState'[o] \in {"stopped", "dead"}) =>
         /\ active_threads_lock' \in Requests
         /\ rpc'[active_threads_lock'] \in {"join", "construct"}
         /\ active_threads[rsess'[active_threads_lock']] = o

\* C12: the registry lock is held for the whole play critical section
\* (lookup, stop, join, construct, start, register): concurrent play calls
\* never interleave inside it, no two of them tear down the same watcher or
\* install a watcher for one session, and every write to the map is made
\* with the lock held.
C12_LockHeldForSection == [](C12_SectionUnderLock) /\ [][C12_WritesUnderLock]_vars

\* C12's case: a play is inside the critical section, about to start its
\* watcher, while another play of the same session waits for the lock.
C12_Witness ==
  \E r \in InSection : \E q \in Requests :
    /\ rpc[q] = "lock" /\ rsess[q] = rsess[r]
    /\ rpc[r] = "start"

\* The observers of session s whose thread is inside dequeue: in the
\* pipeline or in the cleanup that follows it.
InPipeline(s) ==
  {o \in Observers : obsState[o] # "none" /\ obsSess[o] = s /\ hpc[o] = "process"}

\* C13, state part: within one session at most one segment is in the
\* pipeline-or-cleanup phase.
C13_OneSegmentInPipeline == \A s \in Sessions : Cardinality(InPipeline(s)) <= 1

\* C13, step part: a watcher is started, and a segment begins processing,
\* only when no other watcher of the session is still in the pipeline or
\* cleanup of a segment - the watcher that play replaces included.
C13_WaitsForPrevious ==
  \A o \in Observers :
    \/ obsState'[o] = "running" /\ obsState[o] # "running"
    \/ hpc'[o] = "process" /\ hpc[o] # "process"
    => \A p \in Observers \ {o} :
         (obsState[p] # "none" /\ obsSess[p] = obsSess'[o]) => hpc[p] # "process"

\* C13: within one session at most one segment is in the pipeline-or-cleanup
\* phase at any time, across any interleaving of creation events and play
\* replacements; a segment does not begin processing until the previous
\* segment's pipeline and cleanup have returned, also when a watcher that
\* play is replacing was processing it.
C13_OneSegmentAtATime == [](C13_OneSegmentInPipeline) /\ [][C13_WaitsForPrevious]_vars

\* C13's case: play has stopped the session's watcher while that watcher is
\* processing a segment, and waits in join.
C13_Witness ==
  \E r \in Requests :
    /\ rpc[r] = "join"
    /\ hpc[active_threads[rsess[r]]] = "process"

\* The names in a queue.
Names(q) == {q[i] : i \in 1..Len(q)}

\* C14: with several sessions watching the shared directory, the queue of a
\* session only ever holds, and its handler only ever processes, names that
\* carry that session's prefix.
C14_OwnPrefixOnly ==
  \A o \in Observers :
    obsState[o] # "none" =>
      /\ \A f \in Names(queue[o]) : f.sess = obsSess[o]
      /\ hpc[o] = "process" => cur[o].sess = obsSess[o]

\* No name is twice in q.
NoDuplicates(q) == \A i, j \in 1..Len(q) : i # j => q[i] # q[j]

\* C15: the recorder creating each name at most once, a session's queue never
\* holds a name twice at once - across the scan at construction, creation
\* events and play replacements - and the name being processed is not in the
\* queue.
C15_NoDuplicateNames ==
  \A o \in Observers :
    obsState[o] # "none" =>
      /\ NoDuplicates(queue[o])
      /\ hpc[o] = "process" => cur[o] \notin Names(queue[o])

\* C15's case: play has replaced the session's watcher; the new queue was
\* filled by the scan and by a creation event, and is processing one name
\* while holding another.
C15_Witness ==
  /\ obsState[1] = "dead" /\ obsState[2] = "running"
  /\ obsSess[1] = obsSess[2]
  /\ hpc[2] = "process"
  /\ queue[2] # <<>>

\* C18, one step: a step of a pause action changes neither the registry nor
\* any watcher, event queue or segment queue.
C18_PauseStep ==
  (\E r \in Requests : PauseAudio(r) \/ PauseAudioRaises(r)) =>
    UNCHANGED <<active_threads, obsState, obsSess, evq, queue, hpc, cur>>

\* C18: a pause action leaves the watcher registry, the session's watcher and
\* the session's queue unchanged: it neither stops, replaces nor creates a
\* watcher, and neither enqueues nor dequeues.
C18_PauseLeavesWatchers == [][C18_PauseStep]_vars

\* C18's case: a session with a running watcher and a name in its queue has
\* been paused.
C18_Witness ==
  \E s \in Sessions :
    /\ s \notin recording
    /\ active_threads[s] # 0
    /\ obsState[active_threads[s]] = "running"
    /\ queue[active_threads[s]] # <<>>

\* C19: no segment file is missed across a play transition: as long as the
\* session's new watcher has not dequeued anything, every file on disk that
\* carries the session's prefix - present when the recording started or
\* created later, between the scan and the start of the watcher included -
\* is in the new queue or is an event about to be enqueued in it.
C19_NoFileMissed ==
  \A o \in Observers :
    (obsState[o] = "running" /\ outcome[o] = "none" /\ hpc[o] = "idle") =>
      \A f \in dir :
        f.sess = obsSess[o] => f \in Names(queue[o]) \cup Names(evq[o])

(***************************************************************************)
(* SpecStall: the server some time after a play of session s1: its watcher *)
(* (the observer Prior) runs, the recorder has written the session's first *)
(* segment and the watcher's thread is in the pipeline on it.  The         *)
(* pipelines of s1 need not return; everything else runs on.               *)
(***************************************************************************)
InitStall ==
  /\ dir = {FileName("s1", 1)}
  /\ nextSeq = [s \in Sessions |-> IF s = "s1" THEN 2 ELSE 1]
  /\ recording = {"s1"}
  /\ active_threads = [s \in Sessions |-> IF s = "s1" THEN Prior ELSE 0]
  /\ active_threads_lock = 0
  /\ rpc = [r \in Requests |-> "new"]
  /\ rsess = [r \in Requests |-> "s1"]
  /\ rvideo = [r \in Requests |-> "none"]
  /\ resp = [r \in Requests |-> "none"]
  /\ obsState = [o \in Observers |-> IF o = Prior THEN "running" ELSE "none"]
  /\ obsSess = [o \in Observers |-> "s1"]
  /\ evq = [o \in Observers |-> <<>>]
  /\ queue = [o \in Observers |-> <<>>]
  /\ hpc = [o \in Observers |-> IF o = Prior THEN "process" ELSE "idle"]
  /\ cur = [o \in Observers |-> IF o = Prior THEN FileName("s1", 1) ELSE NoFile]
  /\ delCount = [o \in Observers |-> 0]
  /\ raised = [o \in Observers |-> FALSE]
  /\ outcome = [o \in Observers |-> IF o = Prior THEN "running" ELSE "none"]
  /\ procLog = [o \in Observers |-> <<>>]
  /\ entered = [o \in Observers |-> <<>>]
  /\ scanned = [o \in Observers |-> 0]
  /\ IdleDelete /\ IdleRecognize

\* The steps of the threads of the observers of session s.
HandlerStepOf(s) ==
  \E o \in Observers :
    /\ obsState[o] # "none" /\ obsSess[o] = s
    /\ OnCreated(o) \/ ProcessReturns(o) \/ ProcessRaises(o)

\* Invocations that can go on do, and so do the handlers of s2; a pipeline
\* of s1 may stall forever.
SpecStall == InitStall /\ [][Next]_vars /\ WF_vars(RequestStep) /\ WF_vars(HandlerStepOf("s2"))

\* C20: sessions are independent: while a pipeline of session s1 stalls
\* forever, a play call of session s2 still eventually completes, also when
\* play is called again for s1 during the stall.
C20_OtherSessionPlayCompletes ==
  \A r \in Requests :
    (rpc[r] \notin {"new", "done"} /\ rsess[r] = "s2") ~> (rpc[r] = "done")

====
